---- MODULE Spec2Model ----
(***************************************************************************)
(* The shared listener manager of src/src/hooks/usePortfolioDocument.js:   *)
(* the registry uid -> {unsubscribe, subscribers, started}, the three      *)
(* exported operations, and the two onSnapshot handlers that fan a remote  *)
(* push or a remote error out to the subscribers.                          *)
(*                                                                         *)
(* A JavaScript Map keeps its entries in insertion order; set on a new key *)
(* appends, set on a key it has replaces the value in place, and forEach   *)
(* walks the live Map (ECMAScript, Map.prototype.forEach: keys added after *)
(* the call begins are visited, keys deleted before being visited are      *)
(* not).  Subscription ids (`${uid}-${Date.now()}-${Math.random()}`) are   *)
(* modelled as fresh tokens, so a deleted key never comes back and the     *)
(* position of forEach is the set of keys it has visited: the next entry   *)
(* is the first one not yet visited.                                       *)
(*                                                                         *)
(* A handler runs to completion: while it runs, the only calls into the    *)
(* manager are those its callbacks make.  A callback, when invoked by a    *)
(* handler, returns, throws, unsubscribes a subscription of its identity,  *)
(* subscribes another consumer, or unsubscribes itself and subscribes      *)
(* again.  logOnce only logs and is left out.                              *)
(*                                                                         *)
(* The hooks of src/src/hooks/usePortfolioData.js (a field of the user's   *)
(* document) and src/src/hooks/useFirestoreCollection.js (a collection of  *)
(* the user) open their own listener with onSnapshot and do not use the    *)
(* manager.  A render of the component that calls them, the cleanup of the *)
(* effect before and the effect are one step; a state updater is applied   *)
(* in the step of the call that queues it.  usePortfolioData.js holds two  *)
(* definitions of the hook (lines 12-229 and 250-513): `variant` says      *)
(* which one runs.  The store is a document per user, a queue of writes it *)
(* applies or rejects oldest first, and listeners it calls back until they *)
(* are unsubscribed; localStorage is the browser's.  `event` records the   *)
(* handler that has just run and is reset when it returns.                 *)
(***************************************************************************)
EXTENDS Naturals, Sequences, FiniteSets, TLC

\* ------------------------------------------------------------- bounds
MaxIds == 3
MaxOpens == 2

\* ------------------------------------------------------------- values
Uids == {"A", "B"}
NoUid == ""
Callbacks == {"f", "g"}
Docs == {"d1"}
EmptyData == "{}"
RemoteErrors == {"e1"}
CallbackError == "thrown"
NoError == "null"
NullId == 0
Ids == 1..MaxIds

VARIABLES
  reachable,        \* db is set and firebaseError is null (fixed at start-up)
  listenerManager,  \* uid -> registration
  maps,             \* the Map objects handed out as `subscribers`, by number
  handles,          \* the remote subscriptions onSnapshot has opened, by number
  nextId,           \* the next fresh subscription id
  inflight,         \* the onSnapshot handler that is running or has just returned
  log,              \* callback invocations of that handler, in order
  subscribed,       \* history: uid -> ids returned by subscribe, not yet unsubscribed
  last              \* the API call made by the last step, if any

\* the variables of the listener manager
managerVars == <<reachable, listenerManager, maps, handles, nextId, inflight, log,
                 subscribed, last>>

VARIABLES
  variant,          \* which definition of usePortfolioData runs
  mountable,        \* the hooks the application renders
  accounts,         \* the identities the identity provider hands out
  hooks,            \* hook -> its React state and refs
  listeners,        \* hook -> uid -> live onSnapshot listeners the hook has opened
  remote,           \* uid -> the document users/{uid}/portfolio/data in the store
  collections,      \* uid -> the documents of a sub-collection of uid, in query order
  pending,          \* setDoc calls the store has not settled yet, oldest first
  used,             \* what the run has used of MaxWrites and MaxRenders
  localStorage,     \* the browser's local cache
  firestorePermissionError,  \* the process-wide slot of firebase.js
  event             \* the step of a hook made last

vars == <<reachable, listenerManager, maps, handles, nextId, inflight, log,
          subscribed, last, variant, mountable, accounts, hooks, listeners, remote,
          collections, pending, used, localStorage, firestorePermissionError, event>>

\* ------------------------------------------------------------- Map
\* Map.prototype.has
MapHas(entries, id) ==
  \E j \in DOMAIN entries : entries[j].id = id

\* Map.prototype.size
MapSize(entries) == Len(entries)

\* the keys of a Map
MapKeys(entries) == {entries[j].id : j \in DOMAIN entries}

\* Map.prototype.get, for a key the Map has
MapGet(entries, id) ==
  entries[CHOOSE j \in DOMAIN entries : entries[j].id = id].cb

\* Map.prototype.set: in place for a key the Map has, appended otherwise
MapSet(entries, id, cb) ==
  IF MapHas(entries, id)
  THEN [j \in DOMAIN entries |->
          IF entries[j].id = id THEN [entries[j] EXCEPT !.cb = cb] ELSE entries[j]]
  ELSE Append(entries, [id |-> id, cb |-> cb])

\* Map.prototype.delete: the other entries keep their order
MapDelete(entries, id) ==
  SelectSeq(entries, LAMBDA e : e.id # id)

\* ------------------------------------------------------------- registry
Absent == [has |-> FALSE, unsubscribe |-> 0, subscribers |-> 0, started |-> FALSE]

\* the manager's state as one value, so that a callback can call back into it
Mgr == [lm |-> listenerManager, maps |-> maps, handles |-> handles, nextId |-> nextId]

\* listenerManager.get(uid)?.subscribers || new Map()   (0 is the fresh empty Map)
SubscribersOf(M, uid) ==
  IF M.lm[uid].has THEN M.lm[uid].subscribers ELSE 0

EntriesOf(M, m) == IF m = 0 THEN <<>> ELSE M.maps[m]

\* line 33, with only the identity tested
UnavailableUidOnly(uid) == uid = NoUid

\* line 33: !uid || !db || firebaseError
Unavailable(uid) == uid = NoUid \/ ~reachable

\* lines 39-99 without the test of line 39: a listener is opened on every call
SubscribeAlwaysOpens(M, uid, callback) ==
  LET M1 == [M EXCEPT
               !.handles = Append(@, [uid |-> uid, open |-> TRUE, closes |-> 0]),
               !.maps = Append(@, <<>>),
               !.lm[uid] = [has |-> TRUE,
                            unsubscribe |-> Len(M.handles) + 1,
                            subscribers |-> Len(M.maps) + 1,
                            started |-> TRUE]]
  IN [M1 EXCEPT !.maps[M1.lm[uid].subscribers] = MapSet(@, M.nextId, callback),
                !.nextId = M.nextId + 1]

\* lines 39-99: the registering part of subscribeToPortfolioDocument
SubscribeOk(M, uid, callback) ==
  LET M1 == IF ~M.lm[uid].has
            THEN [M EXCEPT
                    !.handles = Append(@, [uid |-> uid, open |-> TRUE, closes |-> 0]),
                    !.maps = Append(@, <<>>),
                    !.lm[uid] = [has |-> TRUE,
                                 unsubscribe |-> Len(M.handles) + 1,
                                 subscribers |-> Len(M.maps) + 1,
                                 started |-> TRUE]]
            ELSE M
      subscriptionId == M.nextId
  IN [M1 EXCEPT !.maps[M1.lm[uid].subscribers] = MapSet(@, subscriptionId, callback),
                !.nextId = subscriptionId + 1]

\* lines 105-114 without the test of line 111
UpdateWithoutHas(M, uid, subscriptionId, newCallback) ==
  IF uid = NoUid \/ ~M.lm[uid].has
  THEN M
  ELSE [M EXCEPT !.maps[M.lm[uid].subscribers] = MapSet(@, subscriptionId, newCallback)]

\* lines 105-114
UpdateOk(M, uid, subscriptionId, newCallback) ==
  IF uid = NoUid \/ ~M.lm[uid].has
  THEN M
  ELSE LET m == M.lm[uid].subscribers
       IN IF MapHas(M.maps[m], subscriptionId)
          THEN [M EXCEPT !.maps[m] = MapSet(@, subscriptionId, newCallback)]
          ELSE M

\* lines 119-133 without the clean-up of lines 128-132
UnsubNeverCleansUp(M, uid, subscriptionId) ==
  IF uid = NoUid \/ ~M.lm[uid].has
  THEN M
  ELSE [M EXCEPT !.maps[M.lm[uid].subscribers] = MapDelete(@, subscriptionId)]

\* lines 119-133 without the test of line 128
UnsubAlwaysCleansUp(M, uid, subscriptionId) ==
  IF uid = NoUid \/ ~M.lm[uid].has
  THEN M
  ELSE [M EXCEPT !.maps[M.lm[uid].subscribers] = <<>>,
                 !.handles[M.lm[uid].unsubscribe].open = FALSE,
                 !.handles[M.lm[uid].unsubscribe].closes = @ + 1,
                 !.lm[uid] = Absent]

\* lines 119-133
Unsub(M, uid, subscriptionId) ==
  IF uid = NoUid \/ ~M.lm[uid].has
  THEN M
  ELSE LET m == M.lm[uid].subscribers
           h == M.lm[uid].unsubscribe
           M1 == [M EXCEPT !.maps[m] = MapDelete(@, subscriptionId)]
       IN IF MapSize(M1.maps[m]) = 0
          THEN [M1 EXCEPT !.handles[h].open = FALSE,
                          !.handles[h].closes = @ + 1,
                          !.lm[uid] = Absent]
          ELSE M1

HadReg(uid) == uid # NoUid /\ listenerManager[uid].has

HadId(uid, id) ==
  HadReg(uid) /\ MapHas(maps[listenerManager[uid].subscribers], id)

\* `last`: the call of the last step; the arguments of a call that found nothing
\* to act on are not kept
NoCall == [op |-> "none", uid |-> NoUid, id |-> NullId, cb |-> "",
           ret |-> NullId, openThrew |-> FALSE, threw |-> FALSE, invoked |-> <<>>,
           hadReg |-> FALSE, hadId |-> FALSE]

Call(op, uid, id, cb) ==
  IF HadId(uid, id)
  THEN [NoCall EXCEPT !.op = op, !.uid = uid, !.id = id, !.cb = cb,
                      !.hadReg = TRUE, !.hadId = TRUE]
  ELSE [NoCall EXCEPT !.op = op, !.hadReg = HadReg(uid)]

Idle == [active |-> FALSE, uid |-> NoUid, handle |-> 0, kind |-> "none",
         data |-> EmptyData, err |-> NoError, phase |-> "none",
         map |-> 0, seen |-> {}, atPush |-> {}, removed |-> {}, added |-> {},
         outcome |-> "none"]

Install(M) ==
  /\ listenerManager' = M.lm
  /\ maps' = M.maps
  /\ handles' = M.handles
  /\ nextId' = M.nextId

\* ============================================================= Field Sync Hook
\* usePortfolioData of src/src/hooks/usePortfolioData.js.  The file holds two
\* definitions of the hook: lines 12-229 (the earlier variant, which falls back
\* to the local cache whenever the remote document gives nothing) and lines
\* 250-513 (the current variant, which reads the local cache only when logged
\* out, unreachable, or after an error).  `variant` says which one is running.
\*
\* A hook instance h is bound to the field KeyOf[h] of the document
\* users/{uid}/portfolio/data.  React runs a render, the cleanup of the previous
\* effect and the new effect as one commit, and applies a state updater before
\* the next event is handled, so each of them is one step here.  The remote
\* store hands a live listener the document as it stands; a write is pending
\* from the call of setDoc until the store applies or rejects it, and the store
\* settles the writes in the order they were issued.

\* ------------------------------------------------------------- bounds
MaxWrites == 2
MaxRenders == 2

\* ------------------------------------------------------------- values
FieldHooks == {1, 2}
CollectionHooks == {3}
Hooks == FieldHooks \cup CollectionHooks
FieldNames == {"data", "fx"}
KeyOf == [h \in FieldHooks |-> IF h = 1 THEN "data" ELSE "fx"]
Values == {0, 1, 2}
ValuesOf == [k \in FieldNames |-> IF k = "data" THEN Values ELSE {0, 1}]
defaultValue == 0
defaultItems == <<>>
Variants == {"earlier", "current"}
PermissionErrors == {"permission-denied"}
HookErrors == PermissionErrors \cup {"unavailable"}
WrappedDenied == "Firestore permission denied. Please check security rules."
PermissionMessage == "Firestore permissions saknas. Kontrollera Firestore Rules i Firebase Console."
Legacy == "v24"
CacheKeys == (Uids \cup {Legacy}) \X FieldNames
NoItem == <<>>
Now == "now"
NoEvent == [op |-> "none", h |-> 0, uid |-> NoUid, value |-> 0, updater |-> FALSE,
            err |-> NoError, fresh |-> FALSE]

\* ------------------------------------------------------------- documents
\* a DocumentSnapshot: exists() and data(), a mapping from field name to value
NoDoc == [exists |-> FALSE, fields |-> <<>>]
Doc(fields) == [exists |-> TRUE, fields |-> fields]
InitDocs == {NoDoc, Doc("fx" :> 1), Doc(("data" :> 2) @@ ("fx" :> 1))}

\* firestoreData[key] !== undefined ? firestoreData[key] : defaultValue
Extract(fields, k) == IF k \in DOMAIN fields THEN fields[k] ELSE defaultValue

\* the payload of the merge write: { [key]: value, updatedAt: now }
Payload(k, value, now) == (k :> value) @@ ("updatedAt" :> now)

\* mutant: the payload replaces the document (setDoc without merge)
MergeOverwrites(doc, payload) == Doc(payload)

\* setDoc(docRef, payload, { merge: true }) as the store applies it
Merge(doc, payload) ==
  Doc([k \in DOMAIN doc.fields \cup DOMAIN payload |->
         IF k \in DOMAIN payload THEN payload[k] ELSE doc.fields[k]])

\* ------------------------------------------------------------- local cache
JSONstringify(value) == <<"json", value>>
JSONparse(item) == item[2]

\* mutant: the legacy key is not read
loadWithoutLegacy(uid, k) ==
  IF uid # NoUid /\ localStorage[<<uid, k>>] # NoItem
  THEN JSONparse(localStorage[<<uid, k>>])
  ELSE defaultValue

\* localStorage.getItem of pf_<uid>_<key>, then of the legacy key pf_<key>_v24
loadFromLocalStorage(uid, k) ==
  IF uid # NoUid /\ localStorage[<<uid, k>>] # NoItem
  THEN JSONparse(localStorage[<<uid, k>>])
  ELSE IF localStorage[<<Legacy, k>>] # NoItem
  THEN JSONparse(localStorage[<<Legacy, k>>])
  ELSE defaultValue

\* localStorage.setItem of pf_<uid>_<key>, only with a uid
saveToLocalStorage(ls, value, uid, k) ==
  IF uid # NoUid THEN [ls EXCEPT ![<<uid, k>>] = JSONstringify(value)] ELSE ls

\* ------------------------------------------------------------- permission error
\* the test the hooks make before calling setFirestorePermissionError
DeniedTest(err) == err \in PermissionErrors

\* mutant: no error counts as a permission error
isPermissionErrorNever(err) == FALSE

\* isPermissionError of firebase.js
isPermissionError(err) == err # NoError /\ err \in PermissionErrors

\* mutant: a denial observed while the slot is set empties it
setFirestorePermissionErrorToggles(slot, err) ==
  IF isPermissionError(err)
  THEN IF slot = NoError THEN PermissionMessage ELSE NoError
  ELSE slot

\* setFirestorePermissionError: a new Error with the fixed message
setFirestorePermissionError(slot, err) ==
  IF isPermissionError(err) THEN PermissionMessage ELSE slot

\* what the hook of `variant` does with a permission error it has caught
Reported(slot, err) ==
  IF variant = "current" /\ DeniedTest(err)
  THEN setFirestorePermissionError(slot, err)
  ELSE slot

\* ------------------------------------------------------------- hook state
\* useState(defaultValue), useState(true), useState(null), useRef(null)
NewHook ==
  [mounted |-> "no", user |-> NoUid, data |-> defaultValue, loading |-> TRUE,
   error |-> NoError, unsubscribeRef |-> NoUid, currentUidRef |-> NoUid,
   cleanup |-> FALSE]

\* a document of a sub-collection: docSnapshot.id and docSnapshot.data()
CollectionDoc(id, data) == [id |-> id, data |-> data]

\* the sub-collections of the store at the start, in the order of the query (date,
\* descending)
InitCollections ==
  [u \in Uids |-> IF u = "A"
                  THEN <<CollectionDoc("t2", "date" :> 2), CollectionDoc("t1", "date" :> 1)>>
                  ELSE <<CollectionDoc("t3", "date" :> 1)>>]

\* { id: docSnapshot.id, ...docSnapshot.data() } (lines 85-88): of two properties
\* with the same name in an object literal the later one wins
Item(d) == d.data @@ ("id" :> d.id)

\* const items = []; snapshot.forEach(... items.push(...)) (lines 83-89)
Items(docs) == [i \in 1..Len(docs) |-> Item(docs[i])]

\* useState(defaultValue) of useFirestoreCollection, defaultValue = []
NewCollectionHook == [NewHook EXCEPT !.data = defaultItems]

\* unsubscribeRef.current(); unsubscribeRef.current = null
Closed(hk, open) ==
  IF hk.unsubscribeRef = NoUid
  THEN [hk |-> hk, open |-> open]
  ELSE [hk |-> [hk EXCEPT !.unsubscribeRef = NoUid],
        open |-> [open EXCEPT ![hk.unsubscribeRef] = @ - 1]]

\* mutant: the effect returns no cleanup function
CleanupNever(hk, open) == [hk |-> hk, open |-> open]

\* the function the effect returned, if it returned one
Cleanup(hk, open) == IF hk.cleanup THEN Closed(hk, open) ELSE [hk |-> hk, open |-> open]

\* the effect of the earlier variant (lines 80-193); thrown: what onSnapshot threw
EffectEarlier(h, hk, open, uid, thrown) ==
  LET local == loadFromLocalStorage(uid, KeyOf[h])
  IN IF Unavailable(uid)
     THEN [hk |-> [hk EXCEPT !.data = local, !.loading = FALSE, !.error = NoError,
                             !.cleanup = FALSE],
           open |-> open, slot |-> firestorePermissionError]
     ELSE LET c == Closed(hk, open)
          IN IF thrown # NoError
             THEN [hk |-> [c.hk EXCEPT !.error = thrown, !.data = local,
                                       !.loading = FALSE, !.cleanup = TRUE],
                   open |-> c.open, slot |-> firestorePermissionError]
             ELSE [hk |-> [c.hk EXCEPT !.loading = TRUE, !.error = NoError,
                                       !.unsubscribeRef = uid, !.cleanup = TRUE],
                   open |-> [c.open EXCEPT ![uid] = @ + 1],
                   slot |-> firestorePermissionError]

\* the effect of the current variant (lines 329-480)
EffectCurrent(h, hk, open, uid, thrown) ==
  LET local == loadFromLocalStorage(uid, KeyOf[h])
      c == IF hk.unsubscribeRef # NoUid /\ hk.currentUidRef # uid
           THEN Closed(hk, open)
           ELSE [hk |-> hk, open |-> open]
      hk1 == [c.hk EXCEPT !.currentUidRef = uid]
  IN IF Unavailable(uid)
     THEN LET d == Closed([hk1 EXCEPT !.data = local, !.loading = FALSE,
                                      !.error = NoError], c.open)
          IN [hk |-> [d.hk EXCEPT !.cleanup = FALSE], open |-> d.open,
              slot |-> firestorePermissionError]
     ELSE IF thrown # NoError
     THEN [hk |-> [hk1 EXCEPT !.error = thrown, !.data = local, !.loading = FALSE,
                              !.cleanup = TRUE],
           open |-> c.open, slot |-> Reported(firestorePermissionError, thrown)]
     ELSE [hk |-> [hk1 EXCEPT !.loading = TRUE, !.error = NoError,
                              !.unsubscribeRef = uid, !.cleanup = TRUE],
           open |-> [c.open EXCEPT ![uid] = @ + 1],
           slot |-> firestorePermissionError]

\* the effect of useFirestoreCollection (lines 24-129); currentUidRef stands for
\* previousUidRef; onSnapshot is called outside any try
EffectCollection(h, hk, open, uid) ==
  LET c == IF hk.unsubscribeRef # NoUid /\ hk.currentUidRef # NoUid
              /\ hk.currentUidRef # uid
           THEN Closed(hk, open)
           ELSE [hk |-> hk, open |-> open]
  IN IF Unavailable(uid)
     THEN LET d == Closed([c.hk EXCEPT !.data = defaultItems, !.loading = FALSE,
                                       !.error = NoError], c.open)
          IN [hk |-> [d.hk EXCEPT !.currentUidRef = uid, !.cleanup = FALSE],
              open |-> d.open, slot |-> firestorePermissionError]
     ELSE [hk |-> [c.hk EXCEPT !.loading = TRUE, !.error = NoError,
                               !.unsubscribeRef = uid, !.currentUidRef = uid,
                               !.cleanup = TRUE],
           open |-> [c.open EXCEPT ![uid] = @ + 1],
           slot |-> firestorePermissionError]

Effect(h, hk, open, uid, thrown) ==
  IF h \in CollectionHooks THEN EffectCollection(h, hk, open, uid)
  ELSE IF variant = "current" THEN EffectCurrent(h, hk, open, uid, thrown)
  ELSE EffectEarlier(h, hk, open, uid, thrown)

\* the hook variables a step of the listener manager leaves alone
dataVars == <<variant, mountable, accounts, hooks, listeners, remote, collections, pending, used, localStorage,
              firestorePermissionError, event>>

\* no hook is mounted
NoHooks ==
  /\ hooks = [h \in Hooks |-> IF h \in CollectionHooks THEN NewCollectionHook ELSE NewHook]
  /\ collections = InitCollections
  /\ listeners = [h \in Hooks |-> [u \in Uids |-> 0]]
  /\ pending = <<>>
  /\ used = [writes |-> 0, renders |-> 0]
  /\ firestorePermissionError = NoError
  /\ event = NoEvent

\* ------------------------------------------------------------- state
\* the listener manager before any call
NoListeners ==
  /\ reachable \in BOOLEAN
  /\ listenerManager = [u \in Uids |-> Absent]
  /\ maps = <<>>
  /\ handles = <<>>
  /\ nextId = 1
  /\ inflight = Idle
  /\ log = <<>>
  /\ subscribed = [u \in Uids |-> {}]
  /\ last = NoCall

\* the caches a browser can start with: a legacy value or none, no per-user value
InitCaches ==
  {[c \in CacheKeys |-> IF c[1] = Legacy /\ c[2] \in L THEN JSONstringify(1) ELSE NoItem] :
     L \in SUBSET {"data"}}

Init ==
  /\ NoListeners
  /\ NoHooks
  /\ variant = "current"
  /\ mountable = {}
  /\ accounts = {}
  /\ remote = [u \in Uids |-> NoDoc]
  /\ localStorage = [c \in CacheKeys |-> NoItem]

\* subscribeToPortfolioDocument(uid, callback); openThrows: doc or onSnapshot throws
subscribeToPortfolioDocument(uid, callback, openThrows) ==
  /\ inflight = Idle
  /\ IF Unavailable(uid)
     THEN /\ ~openThrows
          /\ last' = [NoCall EXCEPT !.op = "subscribe", !.uid = uid, !.cb = callback,
                        !.ret = NullId,
                        !.invoked = <<[cb |-> callback, data |-> EmptyData,
                                       loading |-> FALSE, error |-> NoError]>>]
          /\ UNCHANGED <<listenerManager, maps, handles, nextId, subscribed>>
     ELSE IF openThrows
     THEN /\ ~listenerManager[uid].has
          /\ last' = [NoCall EXCEPT !.op = "subscribe", !.uid = uid, !.cb = callback,
                        !.openThrew = TRUE, !.threw = TRUE]
          /\ UNCHANGED <<listenerManager, maps, handles, nextId, subscribed>>
     ELSE /\ nextId <= MaxIds
          /\ listenerManager[uid].has \/ Len(handles) < MaxOpens
          /\ Install(SubscribeOk(Mgr, uid, callback))
          /\ subscribed' = [subscribed EXCEPT ![uid] = @ \cup {nextId}]
          /\ last' = [NoCall EXCEPT !.op = "subscribe", !.uid = uid, !.cb = callback,
                        !.id = nextId, !.ret = nextId, !.hadReg = HadReg(uid)]
  /\ UNCHANGED <<reachable, inflight, log>>
  /\ UNCHANGED dataVars

\* updateSubscriptionCallback(uid, subscriptionId, newCallback)
updateSubscriptionCallback(uid, subscriptionId, newCallback) ==
  /\ inflight = Idle
  /\ Install(UpdateOk(Mgr, uid, subscriptionId, newCallback))
  /\ last' = Call("updateCallback", uid, subscriptionId, newCallback)
  /\ UNCHANGED <<reachable, inflight, log, subscribed>>
  /\ UNCHANGED dataVars

\* unsubscribeFromPortfolioDocument(uid, subscriptionId)
unsubscribeFromPortfolioDocument(uid, subscriptionId) ==
  /\ inflight = Idle
  /\ Install(Unsub(Mgr, uid, subscriptionId))
  /\ subscribed' = IF uid = NoUid THEN subscribed
                   ELSE [subscribed EXCEPT ![uid] = @ \ {subscriptionId}]
  /\ last' = Call("unsubscribe", uid, subscriptionId, "")
  /\ UNCHANGED <<reachable, inflight, log>>
  /\ UNCHANGED dataVars

\* the transport calls the success handler of an open subscription (lines 49-52)
Push(h, exists, doc) ==
  /\ inflight = Idle
  /\ h \in DOMAIN handles
  /\ handles[h].open
  /\ LET uid == handles[h].uid
         m == SubscribersOf(Mgr, uid)
     IN inflight' = [Idle EXCEPT !.active = TRUE, !.uid = uid, !.handle = h,
                       !.kind = "data",
                       !.data = IF exists THEN doc ELSE EmptyData,
                       !.phase = "try", !.map = m,
                       !.atPush = MapKeys(EntriesOf(Mgr, m)),
                       !.outcome = "running"]
  /\ log' = <<>>
  /\ last' = NoCall
  /\ UNCHANGED <<reachable, listenerManager, maps, handles, nextId, subscribed>>
  /\ UNCHANGED dataVars

\* the transport calls the error handler of an open subscription (lines 66-74)
RemoteError(h, err) ==
  /\ inflight = Idle
  /\ h \in DOMAIN handles
  /\ handles[h].open
  /\ LET uid == handles[h].uid
         m == SubscribersOf(Mgr, uid)
     IN inflight' = [Idle EXCEPT !.active = TRUE, !.uid = uid, !.handle = h,
                       !.kind = "error", !.err = err,
                       !.phase = "error", !.map = m,
                       !.atPush = MapKeys(EntriesOf(Mgr, m)),
                       !.outcome = "running"]
  /\ log' = <<>>
  /\ last' = NoCall
  /\ UNCHANGED <<reachable, listenerManager, maps, handles, nextId, subscribed>>
  /\ UNCHANGED dataVars

\* forEach: the position of the next entry to visit, 0 when the walk is over
NextEntry ==
  LET entries == EntriesOf(Mgr, inflight.map)
      rest == {j \in DOMAIN entries : entries[j].id \notin inflight.seen}
  IN IF rest = {} THEN 0 ELSE CHOOSE j \in rest : \A k \in rest : j <= k

Current == EntriesOf(Mgr, inflight.map)[NextEntry]

\* the arguments the running handler passes to a callback (lines 56, 62, 76)
Invocation(e) ==
  [id |-> e.id, cb |-> e.cb,
   data |-> IF inflight.phase = "try" THEN inflight.data ELSE EmptyData,
   loading |-> FALSE,
   error |-> IF inflight.phase = "try" THEN NoError ELSE inflight.err]

\* forEach has visited the next entry
Visited == [inflight EXCEPT !.seen = @ \cup {Current.id}]

\* forEach has no entry left: the handler returns
DeliverEnd ==
  /\ inflight.active
  /\ NextEntry = 0
  /\ inflight' = [inflight EXCEPT !.active = FALSE,
                    !.outcome = IF inflight.phase = "catch" THEN "caught" ELSE "ok"]
  /\ last' = NoCall
  /\ UNCHANGED <<reachable, listenerManager, maps, handles, nextId, log, subscribed>>
  /\ UNCHANGED dataVars

\* the next callback is invoked and returns
DeliverReturn ==
  /\ inflight.active
  /\ NextEntry # 0
  /\ log' = Append(log, Invocation(Current))
  /\ inflight' = Visited
  /\ last' = NoCall
  /\ UNCHANGED <<reachable, listenerManager, maps, handles, nextId, subscribed>>
  /\ UNCHANGED dataVars

\* the next callback is invoked and throws: the try block's catch starts the
\* error fan-out over the current subscribers (lines 58-63); a throw in the catch
\* block or in the error handler leaves the handler
DeliverThrow ==
  /\ inflight.active
  /\ NextEntry # 0
  /\ log' = Append(log, Invocation(Current))
  /\ inflight' = IF inflight.phase = "try"
                 THEN [inflight EXCEPT !.phase = "catch", !.err = CallbackError,
                         !.map = SubscribersOf(Mgr, inflight.uid), !.seen = {}]
                 ELSE [Visited EXCEPT !.active = FALSE, !.outcome = "threw"]
  /\ last' = NoCall
  /\ UNCHANGED <<reachable, listenerManager, maps, handles, nextId, subscribed>>
  /\ UNCHANGED dataVars

\* the next callback is invoked and unsubscribes a subscription of its identity
DeliverUnsubscribe(target) ==
  /\ inflight.active
  /\ NextEntry # 0
  /\ log' = Append(log, Invocation(Current))
  /\ Install(Unsub(Mgr, inflight.uid, target))
  /\ subscribed' = [subscribed EXCEPT ![inflight.uid] = @ \ {target}]
  /\ inflight' = [Visited EXCEPT
                    !.removed = IF HadId(inflight.uid, target)
                                THEN @ \cup {[id |-> target, at |-> Len(log) + 1]}
                                ELSE @]
  /\ last' = Call("unsubscribe", inflight.uid, target, "")
  /\ UNCHANGED reachable
  /\ UNCHANGED dataVars

\* the next callback is invoked and subscribes another consumer of its identity
DeliverSubscribe(callback) ==
  /\ inflight.active
  /\ NextEntry # 0
  /\ nextId <= MaxIds
  /\ listenerManager[inflight.uid].has \/ Len(handles) < MaxOpens
  /\ log' = Append(log, Invocation(Current))
  /\ Install(SubscribeOk(Mgr, inflight.uid, callback))
  /\ subscribed' = [subscribed EXCEPT ![inflight.uid] = @ \cup {nextId}]
  /\ inflight' = [Visited EXCEPT !.added = @ \cup {nextId}]
  /\ last' = [NoCall EXCEPT !.op = "subscribe", !.uid = inflight.uid, !.cb = callback,
                !.id = nextId, !.ret = nextId, !.hadReg = HadReg(inflight.uid)]
  /\ UNCHANGED reachable
  /\ UNCHANGED dataVars

\* the next callback is invoked, unsubscribes itself and subscribes again
DeliverResubscribe(callback) ==
  /\ inflight.active
  /\ NextEntry # 0
  /\ nextId <= MaxIds
  /\ LET uid == inflight.uid
         M1 == Unsub(Mgr, uid, Current.id)
     IN /\ M1.lm[uid].has \/ Len(handles) < MaxOpens
        /\ log' = Append(log, Invocation(Current))
        /\ Install(SubscribeOk(M1, uid, callback))
        /\ subscribed' = [subscribed EXCEPT ![uid] = (@ \ {Current.id}) \cup {nextId}]
        /\ inflight' = [Visited EXCEPT
                          !.removed = @ \cup {[id |-> Current.id, at |-> Len(log) + 1]},
                          !.added = @ \cup {nextId}]
        /\ last' = [NoCall EXCEPT !.op = "subscribe", !.uid = uid, !.cb = callback,
                      !.id = nextId, !.ret = nextId, !.hadReg = M1.lm[uid].has]
  /\ UNCHANGED reachable
  /\ UNCHANGED dataVars

\* the handler has returned to the event loop: what it did is history
ReturnToEventLoop ==
  /\ ~inflight.active
  /\ inflight # Idle
  /\ inflight' = Idle
  /\ log' = <<>>
  /\ last' = NoCall
  /\ UNCHANGED <<reachable, listenerManager, maps, handles, nextId, subscribed>>
  /\ UNCHANGED dataVars

Next ==
  \/ \E uid \in Uids \cup {NoUid}, cb \in Callbacks, t \in BOOLEAN :
       subscribeToPortfolioDocument(uid, cb, t)
  \/ \E uid \in Uids \cup {NoUid}, id \in Ids, cb \in Callbacks :
       updateSubscriptionCallback(uid, id, cb)
  \/ \E uid \in Uids \cup {NoUid}, id \in Ids :
       unsubscribeFromPortfolioDocument(uid, id)
  \/ \E h \in 1..MaxOpens, exists \in BOOLEAN, doc \in Docs : Push(h, exists, doc)
  \/ \E h \in 1..MaxOpens, err \in RemoteErrors : RemoteError(h, err)
  \/ DeliverReturn
  \/ DeliverThrow
  \/ \E id \in Ids : DeliverUnsubscribe(id)
  \/ \E cb \in Callbacks : DeliverSubscribe(cb)
  \/ \E cb \in Callbacks : DeliverResubscribe(cb)
  \/ DeliverEnd
  \/ ReturnToEventLoop

Spec == Init /\ [][Next]_vars


\* ------------------------------------------------------------- Field Sync Hook: steps
\* mutant: saveToFirestore without its guard
IssuedUnguarded(h, value, uid, origin) ==
  Append(pending, [uid |-> uid, key |-> KeyOf[h], value |-> value,
                   updatedAt |-> Now, h |-> h, origin |-> origin])

\* saveToFirestore(value, uid) of hook h up to the call of setDoc: the writes pending
Issued(h, value, uid, origin) ==
  IF Unavailable(uid) THEN pending
  ELSE Append(pending, [uid |-> uid, key |-> KeyOf[h], value |-> value,
                        updatedAt |-> Now, h |-> h, origin |-> origin])

\* the component that calls the hooks renders for the first time with user uid,
\* and React runs the effect of each hook; onSnapshot throws `thrown` in hook t
Mount(uid, t, thrown) ==
  /\ event = NoEvent
  /\ t \in mountable
  /\ uid \in accounts \cup {NoUid}
  /\ \A h \in mountable : hooks[h].mounted = "no"
  /\ thrown # NoError => t \in FieldHooks /\ ~Unavailable(uid)
  /\ LET r(h) == Effect(h, [hooks[h] EXCEPT !.mounted = "yes", !.user = uid],
                        listeners[h], uid, IF h = t THEN thrown ELSE NoError)
     IN /\ hooks' = [h \in Hooks |-> IF h \in mountable THEN r(h).hk ELSE hooks[h]]
        /\ listeners' = [h \in Hooks |->
                           IF h \in mountable THEN r(h).open ELSE listeners[h]]
        /\ firestorePermissionError' = r(t).slot
  /\ event' = [NoEvent EXCEPT !.op = "mount", !.uid = uid, !.err = thrown,
                 !.h = IF thrown = NoError THEN 0 ELSE t]
  /\ UNCHANGED <<variant, mountable, accounts, collections, remote, pending, used, localStorage>>
  /\ UNCHANGED managerVars

\* the component renders with user uid: for each hook, React runs the cleanup
\* of its last effect and then its effect
Render(uid, t, thrown) ==
  /\ event = NoEvent
  /\ t \in mountable
  /\ uid \in accounts \cup {NoUid}
  /\ \A h \in mountable : hooks[h].mounted = "yes"
  /\ used.renders < MaxRenders
  /\ used' = [used EXCEPT !.renders = @ + 1]
  /\ thrown # NoError => t \in FieldHooks /\ ~Unavailable(uid)
  /\ LET c(h) == Cleanup(hooks[h], listeners[h])
         r(h) == Effect(h, [c(h).hk EXCEPT !.user = uid], c(h).open, uid,
                        IF h = t THEN thrown ELSE NoError)
     IN /\ hooks' = [h \in Hooks |-> IF h \in mountable THEN r(h).hk ELSE hooks[h]]
        /\ listeners' = [h \in Hooks |->
                           IF h \in mountable THEN r(h).open ELSE listeners[h]]
        /\ firestorePermissionError' = r(t).slot
  /\ event' = [NoEvent EXCEPT !.op = "render", !.uid = uid, !.err = thrown,
                 !.h = IF thrown = NoError THEN 0 ELSE t]
  /\ UNCHANGED <<variant, mountable, accounts, collections, remote, pending, localStorage>>
  /\ UNCHANGED managerVars

\* the component unmounts: for each hook, React runs the cleanup of its last effect
Unmount ==
  /\ event = NoEvent
  /\ mountable # {}
  /\ \A h \in mountable : hooks[h].mounted = "yes"
  /\ LET c(h) == Cleanup(hooks[h], listeners[h])
     IN /\ hooks' = [h \in Hooks |-> IF h \in mountable
                                      THEN [c(h).hk EXCEPT !.mounted = "gone"]
                                      ELSE hooks[h]]
        /\ listeners' = [h \in Hooks |->
                           IF h \in mountable THEN c(h).open ELSE listeners[h]]
  /\ event' = [NoEvent EXCEPT !.op = "unmount"]
  /\ UNCHANGED <<variant, mountable, accounts, collections, remote, pending, used, localStorage,
                 firestorePermissionError>>
  /\ UNCHANGED managerVars

\* mutant: a delivery leaves loading as it is
ReceivedStillLoading(h, newData) ==
  [hooks EXCEPT ![h].data = newData, ![h].error = NoError]

\* mutant: a delivery leaves the error as it is
ReceivedKeepsError(h, newData) ==
  [hooks EXCEPT ![h].data = newData, ![h].loading = FALSE]

\* setData(newData); setError(null); setLoading(false) (lines 402-418)
Received(h, newData) ==
  [hooks EXCEPT ![h].data = newData, ![h].error = NoError, ![h].loading = FALSE]

\* the store hands the document of uid to the listener hook h opened for uid:
\* the success callback of onSnapshot (lines 123-159 and 386-427); fresh: the value
\* given to setData is read from the object snapshot.data() has just built (lines
\* 394-402), not the default the hook was given
Snapshot(h, uid) ==
  /\ event = NoEvent
  /\ listeners[h][uid] > 0
  /\ LET k == KeyOf[h]
         doc == remote[uid]
         newData == Extract(doc.fields, k)
         local == loadFromLocalStorage(uid, k)
     IN IF doc.exists
        THEN /\ hooks' = Received(h, newData)
             /\ localStorage' = saveToLocalStorage(localStorage, newData, uid, k)
             /\ UNCHANGED <<pending, used>>
        ELSE IF variant = "current"
        THEN /\ hooks' = Received(h, defaultValue)
             /\ UNCHANGED <<localStorage, pending, used>>
        ELSE /\ used.writes < MaxWrites
             /\ used' = [used EXCEPT !.writes = @ + 1]
             /\ hooks' = [hooks EXCEPT ![h].data = local, ![h].loading = FALSE]
             /\ pending' = Issued(h, local, uid, "migrate")
             /\ UNCHANGED localStorage
  /\ event' = [NoEvent EXCEPT !.op = "snapshot", !.h = h, !.uid = uid,
                 !.fresh = KeyOf[h] \in DOMAIN remote[uid].fields]
  /\ UNCHANGED <<variant, mountable, accounts, collections, listeners, remote, firestorePermissionError>>
  /\ UNCHANGED managerVars

\* the store reports err to the listener hook h opened for uid:
\* the error callback of onSnapshot (lines 160-172 and 428-449)
SnapshotError(h, uid, err) ==
  /\ event = NoEvent
  /\ listeners[h][uid] > 0
  /\ hooks' = [hooks EXCEPT ![h].error = err,
                            ![h].data = loadFromLocalStorage(uid, KeyOf[h]),
                            ![h].loading = FALSE]
  /\ firestorePermissionError' = Reported(firestorePermissionError, err)
  /\ event' = [NoEvent EXCEPT !.op = "snapshotError", !.h = h, !.uid = uid,
                 !.err = err]
  /\ UNCHANGED <<variant, mountable, accounts, collections, listeners, remote, pending, used, localStorage>>
  /\ UNCHANGED managerVars

\* mutant: the value is stored only when a delivery brings it
Awaited(h, valueToStore) == hooks

\* setData(prevData => { ...; return valueToStore }) (lines 484-509)
Optimistic(h, valueToStore) == [hooks EXCEPT ![h].data = valueToStore]

\* mutant: the function is applied to the value the hook was created with
ValueToStoreStale(newData, updater, prevData) ==
  IF updater THEN defaultValue + 1 ELSE newData

\* typeof newData === 'function' ? newData(prevData) : newData (line 485), the
\* function being v => v + 1
ValueToStore(newData, updater, prevData) ==
  IF updater THEN prevData + 1 ELSE newData

\* updateData(newData) of hook h (lines 196-226 and 483-510); updater: newData is
\* the function v => v + 1
updateData(h, updater, newData) ==
  /\ event = NoEvent
  /\ hooks[h].mounted = "yes"
  /\ newData \in ValuesOf[KeyOf[h]]
  /\ updater => newData = 0 /\ hooks[h].data + 1 \in ValuesOf[KeyOf[h]]
  /\ LET uid == hooks[h].user
         valueToStore == ValueToStore(newData, updater, hooks[h].data)
     IN /\ ~Unavailable(uid) => used.writes < MaxWrites
        /\ used' = IF Unavailable(uid) THEN used ELSE [used EXCEPT !.writes = @ + 1]
        /\ localStorage' = saveToLocalStorage(localStorage, valueToStore, uid, KeyOf[h])
        /\ pending' = Issued(h, valueToStore, uid, "update")
        /\ hooks' = Optimistic(h, valueToStore)
        /\ event' = [NoEvent EXCEPT !.op = "updateData", !.h = h, !.uid = uid,
                       !.value = newData, !.updater = updater]
  /\ UNCHANGED <<variant, mountable, accounts, collections, listeners, remote, firestorePermissionError>>
  /\ UNCHANGED managerVars

\* the store applies the oldest pending write: setDoc resolves
WriteApplied ==
  /\ event = NoEvent
  /\ pending # <<>>
  /\ LET w == Head(pending)
     IN /\ remote' = [remote EXCEPT ![w.uid] =
                        Merge(@, Payload(w.key, w.value, w.updatedAt))]
        /\ event' = [NoEvent EXCEPT !.op = "applied", !.h = w.h, !.uid = w.uid,
                       !.value = w.value]
  /\ pending' = Tail(pending)
  /\ UNCHANGED <<variant, mountable, accounts, collections, hooks, listeners, used, localStorage,
                 firestorePermissionError>>
  /\ UNCHANGED managerVars

\* the error the catch of updateData stores (lines 211-219 and 499-503)
WriteError(err) ==
  IF variant = "earlier" /\ err = "permission-denied" THEN WrappedDenied ELSE err

\* mutant: the failed write is rolled back to the default
FailedRollsBack(h, err) ==
  [hooks EXCEPT ![h].error = WriteError(err), ![h].data = defaultValue]

\* .catch(err => { setError(err) }) of updateData
Failed(h, err) == [hooks EXCEPT ![h].error = WriteError(err)]

\* the store rejects the oldest pending write with err: setDoc rejects, the catch
\* of saveToFirestore (lines 71-76 and 313-325), then the catch of its caller
WriteRejected(err) ==
  /\ event = NoEvent
  /\ pending # <<>>
  /\ LET w == Head(pending)
     IN /\ hooks' = IF w.origin = "update" /\ hooks[w.h].mounted = "yes"
                    THEN Failed(w.h, err)
                    ELSE hooks
        /\ event' = [NoEvent EXCEPT !.op = "rejected", !.h = w.h, !.uid = w.uid,
                       !.value = w.value, !.err = err]
  /\ firestorePermissionError' = Reported(firestorePermissionError, err)
  /\ pending' = Tail(pending)
  /\ UNCHANGED <<variant, mountable, accounts, collections, listeners, remote, used, localStorage>>
  /\ UNCHANGED managerVars

\* clearFirestorePermissionError of firebase.js, called by the UI layer
clearFirestorePermissionError ==
  /\ event = NoEvent
  /\ firestorePermissionError # NoError
  /\ firestorePermissionError' = NoError
  /\ event' = [NoEvent EXCEPT !.op = "clear"]
  /\ UNCHANGED <<variant, mountable, accounts, collections, hooks, listeners, remote, pending, used, localStorage>>
  /\ UNCHANGED managerVars

\* mutant: the items of the snapshot are appended to the items the hook holds
RebuiltIncrementally(h, docs) ==
  [hooks EXCEPT ![h].data = @ \o Items(docs), ![h].error = NoError,
                ![h].loading = FALSE]

\* setData(items); setError(null); setLoading(false) (useFirestoreCollection.js,
\* lines 92-94)
Rebuilt(h, docs) ==
  [hooks EXCEPT ![h].data = Items(docs), ![h].error = NoError, ![h].loading = FALSE]

\* the store hands the documents of the sub-collection of uid to the listener the
\* collection hook h opened for uid (useFirestoreCollection.js, lines 78-101)
CollectionSnapshot(h, uid) ==
  /\ event = NoEvent
  /\ listeners[h][uid] > 0
  /\ hooks' = Rebuilt(h, collections[uid])
  /\ event' = [NoEvent EXCEPT !.op = "collectionSnapshot", !.h = h, !.uid = uid]
  /\ UNCHANGED <<variant, mountable, accounts, collections, listeners, remote, pending,
                 used, localStorage, firestorePermissionError>>
  /\ UNCHANGED managerVars

\* the store reports err to that listener (useFirestoreCollection.js, lines 102-116)
CollectionError(h, uid, err) ==
  /\ event = NoEvent
  /\ listeners[h][uid] > 0
  /\ hooks' = [hooks EXCEPT ![h].error = err, ![h].data = defaultItems,
                            ![h].loading = FALSE]
  /\ firestorePermissionError' =
       IF DeniedTest(err) THEN setFirestorePermissionError(firestorePermissionError, err)
       ELSE firestorePermissionError
  /\ event' = [NoEvent EXCEPT !.op = "collectionError", !.h = h, !.uid = uid,
                 !.err = err]
  /\ UNCHANGED <<variant, mountable, accounts, collections, listeners, remote, pending,
                 used, localStorage>>
  /\ UNCHANGED managerVars

\* ------------------------------------------------------------- Collection Sync Hook: calls
\* the items the application adds: one carries a field named id of its own
NewItems == {"date" :> 1, ("date" :> 2) @@ ("id" :> "x")}

\* the updates the application makes
Updates == {"note" :> 1}

\* the identifiers addDoc gives to new documents, in the order of the calls
NewIds == <<"n1", "n2", "n3", "n4">>

\* the values an item's id can have
ItemIds == {"t1", "t2", "t3", "x"} \cup {NewIds[i] : i \in DOMAIN NewIds}

\* new Error('Cannot add item: Firebase not available') and its siblings (lines
\* 136, 164, 193)
CannotMessage == [addItem |-> "Cannot add item: Firebase not available",
                  updateItem |-> "Cannot update item: Firebase not available",
                  deleteItem |-> "Cannot delete item: Firebase not available"]

\* the error of updateDoc for a document that does not exist
NotFound == "not-found"

\* the ids of the items the hook shows: what the application can hand to
\* updateItem and deleteItem
ShownIds(h) == {hooks[h].data[i]["id"] : i \in 1..Len(hooks[h].data)}

\* mutant: the call goes to the store whatever the guard says
CalledUnguarded(h, op, itemId, value) ==
  [pending |-> Append(pending, [uid |-> hooks[h].user, key |-> itemId, value |-> value,
                                updatedAt |-> Now, h |-> h, origin |-> op]),
   err |-> NoError]

\* addItem, updateItem, deleteItem up to the remote call (lines 133-146, 161-176,
\* 190-205): the calls pending at the store and the error thrown, if any
Called(h, op, itemId, value) ==
  IF Unavailable(hooks[h].user)
  THEN [pending |-> pending, err |-> CannotMessage[op]]
  ELSE [pending |-> Append(pending, [uid |-> hooks[h].user, key |-> itemId,
                                     value |-> value, updatedAt |-> Now, h |-> h,
                                     origin |-> op]),
        err |-> NoError]

\* a call of one of the three operations by the application
CollectionCall(h, op, itemId, value) ==
  /\ event = NoEvent
  /\ hooks[h].mounted = "yes"
  /\ ~Unavailable(hooks[h].user) => used.writes < MaxWrites
  /\ used' = IF Unavailable(hooks[h].user) THEN used ELSE [used EXCEPT !.writes = @ + 1]
  /\ pending' = Called(h, op, itemId, value).pending
  /\ event' = [NoEvent EXCEPT !.op = op, !.h = h, !.uid = hooks[h].user,
                 !.err = Called(h, op, itemId, value).err]
  /\ UNCHANGED <<variant, mountable, accounts, collections, hooks, listeners, remote,
                 localStorage, firestorePermissionError>>
  /\ UNCHANGED managerVars

\* addItem(item) (lines 132-157); addDoc picks the identifier of the new document
addItem(h, item) ==
  /\ item \in NewItems
  /\ CollectionCall(h, "addItem", NewIds[used.writes + 1], item)

\* updateItem(itemId, updates) (lines 160-186); the application passes the id of
\* an item it shows (any id when the call is refused: the id is not looked at)
updateItem(h, itemId, updates) ==
  /\ itemId \in ShownIds(h) \/ (Unavailable(hooks[h].user) /\ itemId = "t1")
  /\ CollectionCall(h, "updateItem", itemId, updates)

\* deleteItem(itemId) (lines 189-215)
deleteItem(h, itemId) ==
  /\ itemId \in ShownIds(h) \/ (Unavailable(hooks[h].user) /\ itemId = "t1")
  /\ CollectionCall(h, "deleteItem", itemId, <<>>)

\* the positions of the documents with identifier id
Positions(docs, id) == {i \in 1..Len(docs) : docs[i].id = id}

\* the query orders by date, descending: the place of a new document
Inserted(docs, d) ==
  LET before == Cardinality({i \in 1..Len(docs) : docs[i].data["date"] > d.data["date"]})
  IN SubSeq(docs, 1, before) \o <<d>> \o SubSeq(docs, before + 1, Len(docs))

\* what the store makes of the sub-collection when it applies call w: addDoc,
\* updateDoc with { ...updates, updatedAt: now }, deleteDoc
Applied(docs, w) ==
  IF w.origin = "addItem" THEN Inserted(docs, CollectionDoc(w.key, w.value))
  ELSE IF w.origin = "updateItem"
  THEN [i \in 1..Len(docs) |->
          IF docs[i].id = w.key
          THEN CollectionDoc(w.key, (w.value @@ ("updatedAt" :> w.updatedAt)) @@ docs[i].data)
          ELSE docs[i]]
  ELSE SelectSeq(docs, LAMBDA d : d.id # w.key)

\* mutant: the hook shows an added item as soon as the store has acknowledged it
AcknowledgedShows(w) ==
  IF w.origin = "addItem"
  THEN [hooks EXCEPT ![w.h].data = Append(@, Item(CollectionDoc(w.key, w.value)))]
  ELSE hooks

\* what the operation does to the hook when its promise resolves (lines 147-148,
\* 177, 206): it logs and returns
Acknowledged(w) == hooks

\* the store applies the oldest pending call and the promise resolves (lines 146-148,
\* 176-177, 205-206)
CallApplied ==
  /\ event = NoEvent
  /\ pending # <<>>
  /\ LET w == Head(pending)
     IN /\ w.origin = "updateItem" => Positions(collections[w.uid], w.key) # {}
        /\ collections' = [collections EXCEPT ![w.uid] = Applied(@, w)]
        /\ hooks' = Acknowledged(w)
        /\ event' = [NoEvent EXCEPT !.op = "itemApplied", !.h = w.h, !.uid = w.uid]
  /\ pending' = Tail(pending)
  /\ UNCHANGED <<variant, mountable, accounts, listeners, remote, used,
                 localStorage, firestorePermissionError>>
  /\ UNCHANGED managerVars

\* the store rejects the oldest pending call with err: the catch of the operation
\* (lines 149-156, 178-185, 207-214); updateDoc rejects for a missing document
CallRejected(err) ==
  /\ event = NoEvent
  /\ pending # <<>>
  /\ LET w == Head(pending)
     IN /\ err = NotFound =>
             w.origin = "updateItem" /\ Positions(collections[w.uid], w.key) = {}
        /\ event' = [NoEvent EXCEPT !.op = "itemRejected", !.h = w.h, !.uid = w.uid,
                       !.err = err]
  /\ firestorePermissionError' =
       IF DeniedTest(err) THEN setFirestorePermissionError(firestorePermissionError, err)
       ELSE firestorePermissionError
  /\ pending' = Tail(pending)
  /\ UNCHANGED <<variant, mountable, accounts, collections, hooks, listeners, remote,
                 used, localStorage>>
  /\ UNCHANGED managerVars

\* the handler has returned to the event loop: what it did is history
HandlerReturns ==
  /\ event # NoEvent
  /\ event' = NoEvent
  /\ UNCHANGED <<variant, mountable, accounts, collections, hooks, listeners, remote, pending, used,
                 localStorage, firestorePermissionError>>
  /\ UNCHANGED managerVars

NextData ==
  \/ \E uid \in Uids \cup {NoUid}, t \in Hooks, thrown \in HookErrors \cup {NoError} :
       Mount(uid, t, thrown)
  \/ \E uid \in Uids \cup {NoUid}, t \in Hooks, thrown \in HookErrors \cup {NoError} :
       Render(uid, t, thrown)
  \/ Unmount
  \/ \E h \in FieldHooks, uid \in Uids : Snapshot(h, uid)
  \/ \E h \in FieldHooks, uid \in Uids, err \in HookErrors : SnapshotError(h, uid, err)
  \/ \E h \in FieldHooks, updater \in BOOLEAN, newData \in Values :
       updateData(h, updater, newData)
  \/ WriteApplied
  \/ \E err \in HookErrors : WriteRejected(err)
  \/ clearFirestorePermissionError
  \/ HandlerReturns

\* the documents of the store at the start: the document of A is d, B has none
InitRemote(d) == [u \in Uids |-> IF u = "A" THEN d ELSE NoDoc]

\* one hook of the current variant, bound to "data", and one account
InitData ==
  /\ NoListeners
  /\ NoHooks
  /\ variant = "current"
  /\ mountable = {1}
  /\ accounts = {"A"}
  /\ remote \in {InitRemote(d) : d \in InitDocs}
  /\ localStorage \in InitCaches

SpecData == InitData /\ [][NextData]_vars

\* the same hook in either variant of the file
InitVariants ==
  /\ NoListeners
  /\ NoHooks
  /\ variant \in Variants
  /\ mountable = {1}
  /\ accounts = {"A"}
  /\ remote \in {InitRemote(d) : d \in InitDocs}
  /\ localStorage \in InitCaches

SpecVariants == InitVariants /\ [][NextData]_vars

\* one hook bound to "data" whose value is 0 in the store and in the browser, and
\* an application that only calls updateData(v => v + 1)
InitCounter ==
  /\ NoListeners
  /\ NoHooks
  /\ variant = "current"
  /\ mountable = {1}
  /\ accounts = {"A"}
  /\ remote \in {InitRemote(NoDoc), InitRemote(Doc("fx" :> 1))}
  /\ localStorage = [c \in CacheKeys |-> NoItem]

NextCounter ==
  \/ \E uid \in Uids \cup {NoUid}, t \in Hooks, thrown \in HookErrors \cup {NoError} :
       Mount(uid, t, thrown)
  \/ \E uid \in Uids \cup {NoUid}, t \in Hooks, thrown \in HookErrors \cup {NoError} :
       Render(uid, t, thrown)
  \/ Unmount
  \/ \E h \in FieldHooks, uid \in Uids : Snapshot(h, uid)
  \/ \E h \in FieldHooks, uid \in Uids, err \in HookErrors : SnapshotError(h, uid, err)
  \/ \E h \in FieldHooks : updateData(h, TRUE, 0)
  \/ WriteApplied
  \/ \E err \in HookErrors : WriteRejected(err)
  \/ clearFirestorePermissionError
  \/ HandlerReturns

SpecCounter == InitCounter /\ [][NextCounter]_vars

\* one field hook of the current variant, or one collection hook, and two accounts:
\* the user can change
InitSwitch ==
  /\ NoListeners
  /\ NoHooks
  /\ variant = "current"
  /\ mountable \in {{1}, CollectionHooks}
  /\ accounts = Uids
  /\ remote = InitRemote(Doc(("data" :> 2) @@ ("fx" :> 1)))
  /\ localStorage \in InitCaches

\* the steps of an application that renders a field hook or a collection hook
NextSwitch ==
  \/ NextData
  \/ \E h \in CollectionHooks, uid \in Uids : CollectionSnapshot(h, uid)
  \/ \E h \in CollectionHooks, uid \in Uids, err \in HookErrors :
       CollectionError(h, uid, err)

SpecSwitch == InitSwitch /\ [][NextSwitch]_vars

\* one collection hook and an application that adds, updates and deletes items
InitCollection ==
  /\ NoListeners
  /\ NoHooks
  /\ variant = "current"
  /\ mountable = CollectionHooks
  /\ accounts = Uids
  /\ remote = InitRemote(NoDoc)
  /\ localStorage = [c \in CacheKeys |-> NoItem]

NextCollection ==
  \/ \E uid \in Uids \cup {NoUid}, t \in Hooks : Mount(uid, t, NoError)
  \/ \E uid \in Uids \cup {NoUid}, t \in Hooks : Render(uid, t, NoError)
  \/ Unmount
  \/ \E h \in CollectionHooks, uid \in Uids : CollectionSnapshot(h, uid)
  \/ \E h \in CollectionHooks, uid \in Uids, err \in HookErrors :
       CollectionError(h, uid, err)
  \/ \E h \in CollectionHooks, item \in NewItems : addItem(h, item)
  \/ \E h \in CollectionHooks, itemId \in ItemIds,
        updates \in Updates : updateItem(h, itemId, updates)
  \/ \E h \in CollectionHooks, itemId \in ItemIds :
       deleteItem(h, itemId)
  \/ CallApplied
  \/ \E err \in HookErrors \cup {NotFound} : CallRejected(err)
  \/ clearFirestorePermissionError
  \/ HandlerReturns

SpecCollection == InitCollection /\ [][NextCollection]_vars

\* two hooks of the current variant, bound to the two fields of the document of A
InitTwoHooks ==
  /\ NoListeners
  /\ reachable
  /\ NoHooks
  /\ variant = "current"
  /\ mountable = FieldHooks
  /\ accounts = {"A"}
  /\ remote = InitRemote(Doc("fx" :> 1))
  /\ localStorage = [c \in CacheKeys |-> NoItem]

SpecTwoHooks == InitTwoHooks /\ [][NextData]_vars

\* ------------------------------------------------------------- properties
Registry == <<listenerManager, maps, handles, nextId>>

LiveHandles(uid) ==
  {h \in DOMAIN handles : handles[h].uid = uid /\ handles[h].open}

\* the invocations the handler has made of subscription id
Calls(id) == {k \in DOMAIN log : log[k].id = id}

Finished == ~inflight.active /\ inflight # Idle

\* C1: whatever was subscribed, unsubscribed, updated or delivered, an identity
\* has at most one remote subscription that is opened and not closed, and a
\* subscribe on an identity that has a registration opens none.
C1_OneLiveSubscription ==
  /\ [](\A uid \in Uids : Cardinality(LiveHandles(uid)) <= 1)
  /\ [][last'.op = "subscribe" /\ last'.ret # NullId /\ last'.hadReg
          => handles' = handles]_vars

C1_Witness ==
  \E uid \in Uids :
    /\ Cardinality(subscribed[uid]) >= 2
    /\ Cardinality(LiveHandles(uid)) = 1
    /\ last.op = "subscribe" /\ last.uid = uid /\ last.hadReg
    /\ \E h \in DOMAIN handles : handles[h].uid # uid /\ ~handles[h].open

\* C2: an identity has a registration exactly while it has a subscriber; the
\* registration's listener is open, every listener is closed at most once, an
\* open listener belongs to its identity's registration, and a listener is
\* closed only by the step that removes the identity's last subscriber.
C2_RegistrationLifetime ==
  /\ [](\A uid \in Uids :
          /\ listenerManager[uid].has <=> subscribed[uid] # {}
          /\ listenerManager[uid].has =>
               /\ MapKeys(maps[listenerManager[uid].subscribers]) = subscribed[uid]
               /\ LiveHandles(uid) = {listenerManager[uid].unsubscribe})
  /\ [](\A h \in DOMAIN handles :
          /\ handles[h].closes <= 1
          /\ handles[h].open <=> handles[h].closes = 0
          /\ handles[h].open => listenerManager[handles[h].uid].has)
  /\ [][\A h \in DOMAIN handles :
          handles[h].open /\ ~handles'[h].open =>
            /\ Cardinality(subscribed[handles[h].uid]) = 1
            /\ subscribed[handles[h].uid] \cap subscribed'[handles[h].uid] = {}]_vars

C2_Witness ==
  /\ last.op = "unsubscribe" /\ last.hadId
  /\ ~listenerManager[last.uid].has
  /\ \E h \in DOMAIN handles :
       handles[h].uid = last.uid /\ ~handles[h].open /\ handles[h].closes = 1
  /\ \E uid \in Uids : Cardinality(subscribed[uid]) >= 2

\* C3: when the success handler has run for a push, every subscription that was
\* registered when the push arrived has been invoked exactly once, with the
\* pushed data, loading false and no error.
C3_EveryoneExactlyOnce ==
  (Finished /\ inflight.kind = "data") =>
    \A id \in inflight.atPush :
      /\ Cardinality(Calls(id)) = 1
      /\ \A k \in Calls(id) :
           log[k].data = inflight.data /\ ~log[k].loading /\ log[k].error = NoError

\* C4: a subscribe with an empty identity or with the store unreachable invokes
\* the callback once with ({}, false, null), returns null and leaves the
\* registry as it was.
C4_UnavailableSubscribe ==
  [][last'.op = "subscribe" /\ (last'.uid = NoUid \/ ~reachable) =>
       /\ last'.ret = NullId
       /\ ~last'.threw
       /\ last'.invoked = <<[cb |-> last'.cb, data |-> EmptyData,
                             loading |-> FALSE, error |-> NoError]>>
       /\ UNCHANGED <<Registry, subscribed>>]_vars

C4_Witness ==
  /\ last.op = "subscribe" /\ last.uid = NoUid /\ last.ret = NullId
  /\ Len(last.invoked) = 1
  /\ \E uid \in Uids : listenerManager[uid].has

\* C5: an unsubscribe whose identity has no registration, or whose id is not in
\* the identity's subscriber mapping, changes nothing and does not throw.
C5_UnknownUnsubscribe ==
  [][last'.op = "unsubscribe" /\ ~last'.hadId =>
       ~last'.threw /\ UNCHANGED <<Registry, subscribed>>]_vars

C5_Witness ==
  /\ last.op = "unsubscribe" /\ last.hadReg /\ ~last.hadId
  /\ \E uid \in Uids : subscribed[uid] # {}
  /\ nextId > 2

\* C6: updateCallback on a registered id replaces the callback stored under that
\* id and nothing else; on an unknown identity or id it changes nothing; a
\* stored callback changes only by an updateCallback for its id; and a handler
\* invokes, for a subscription still registered, the callback stored under it.
C6_UpdateInPlace ==
  /\ [][last'.op = "updateCallback" =>
          /\ UNCHANGED <<listenerManager, handles, nextId, subscribed>>
          /\ IF last'.hadId
             THEN LET m == listenerManager[last'.uid].subscribers
                  IN /\ \A k \in DOMAIN maps : k # m => maps'[k] = maps[k]
                     /\ DOMAIN maps' = DOMAIN maps
                     /\ Len(maps'[m]) = Len(maps[m])
                     /\ \A j \in DOMAIN maps[m] :
                          /\ maps'[m][j].id = maps[m][j].id
                          /\ maps'[m][j].cb = IF maps[m][j].id = last'.id
                                              THEN last'.cb
                                              ELSE maps[m][j].cb
             ELSE maps' = maps]_vars
  /\ [][\A m \in DOMAIN maps : \A j \in DOMAIN maps[m] :
          \A i \in DOMAIN maps'[m] :
            maps'[m][i].id = maps[m][j].id /\ maps'[m][i].cb # maps[m][j].cb =>
              /\ last'.op = "updateCallback" /\ last'.hadId
              /\ last'.id = maps[m][j].id /\ last'.cb = maps'[m][i].cb]_vars
  /\ [](inflight # Idle =>
          \A k \in DOMAIN log :
            log[k].id \in subscribed[inflight.uid] =>
              log[k].cb = MapGet(maps[listenerManager[inflight.uid].subscribers],
                                 log[k].id))

C6_Witness ==
  /\ last.op = "updateCallback" /\ last.hadId
  /\ LET entries == maps[listenerManager[last.uid].subscribers]
     IN /\ MapGet(entries, last.id) = last.cb
        /\ \E j \in DOMAIN entries : entries[j].id # last.id /\ entries[j].cb # last.cb

\* C7: a handler invokes no subscription that was added while it was running.
C7_SnapshotIteration ==
  \A k \in DOMAIN log : log[k].id \notin inflight.added

\* C8: when a handler during which a callback unsubscribed has returned, no
\* removed subscription was invoked after its removal, every subscription
\* registered at the push and still registered was invoked exactly once, the
\* handler ended without an error, and its listener was closed exactly once if
\* its registration is gone and not at all otherwise.
C8_UnsubscribeDuringDelivery ==
  (Finished /\ inflight.removed # {}) =>
    /\ \A r \in inflight.removed : \A k \in Calls(r.id) : k <= r.at
    /\ \A id \in inflight.atPush \cap subscribed[inflight.uid] :
         Cardinality(Calls(id)) = 1
    /\ inflight.outcome = "ok"
    /\ handles[inflight.handle].closes =
         (IF listenerManager[inflight.uid].has
             /\ listenerManager[inflight.uid].unsubscribe = inflight.handle
          THEN 0 ELSE 1)
    /\ subscribed[inflight.uid] = {} => ~handles[inflight.handle].open

\* C9: when the error handler has run, every subscription that was registered
\* for the identity when the error arrived and still is has been invoked with
\* ({}, false, err) for the reported error.
C9_ErrorReachesEveryone ==
  (Finished /\ inflight.kind = "error") =>
    \A id \in inflight.atPush \cap subscribed[inflight.uid] :
      \E k \in Calls(id) :
        log[k].data = EmptyData /\ ~log[k].loading /\ log[k].error = inflight.err

\* C10: a subscribe whose opening of the listener throws creates no
\* registration, hands the error to the caller's callback and returns null
\* instead of throwing.
C10_OpenFailureHandled ==
  (last.op = "subscribe" /\ last.openThrew) =>
    /\ ~listenerManager[last.uid].has
    /\ ~last.threw
    /\ last.ret = NullId
    /\ \E k \in DOMAIN last.invoked :
         last.invoked[k].cb = last.cb /\ last.invoked[k].error # NoError

\* ------------------------------------------------------------- properties of the hooks
\* the document the store handed to the listener in the step just made
Delivered == remote[event.uid]

\* C11: when a document has just been delivered to a hook that is logged in, the
\* hook's value is the field of that document the hook is bound to if the document
\* exists and has it, and the caller's default otherwise, whatever the local cache
\* holds
C11_DeliveredOrDefault ==
  event.op = "snapshot" =>
    hooks[event.h].data =
      IF Delivered.exists /\ KeyOf[event.h] \in DOMAIN Delivered.fields
      THEN Delivered.fields[KeyOf[event.h]]
      ELSE defaultValue

\* the value of field k in the document of uid as the store has it
RemoteField(uid, k) == Extract(remote[uid].fields, k)

\* C12: the step that calls update(v) or update(f) leaves the hook's value equal to
\* v, or to f of the value before, logged in or not; a write it issues is still
\* pending after the step and the document of the store is as it was
C12_OptimisticValue ==
  [][event'.op = "updateData" =>
       /\ hooks'[event'.h].data =
            IF event'.updater THEN hooks[event'.h].data + 1 ELSE event'.value
       /\ remote' = remote
       /\ event'.uid # NoUid /\ reachable =>
            /\ Len(pending') = Len(pending) + 1
            /\ pending'[Len(pending')].value = hooks'[event'.h].data]_vars

\* an update made while logged in: the value is stored, the write is pending and the
\* store still has another value
C12_Witness ==
  /\ event.op = "updateData"
  /\ event.uid = "A"
  /\ pending # <<>>
  /\ hooks[event.h].data = 2
  /\ RemoteField("A", KeyOf[event.h]) # 2

\* C13: the step in which the write of an update fails sets the error of the hook
\* that issued it to the failure and changes neither its value nor its loading flag
C13_WriteFailureKeepsValue ==
  [][event'.op = "rejected" /\ hooks[event'.h].mounted = "yes" =>
       /\ hooks'[event'.h].error = event'.err
       /\ hooks'[event'.h].data = hooks[event'.h].data
       /\ hooks'[event'.h].loading = hooks[event'.h].loading
       /\ remote' = remote]_vars

\* a write has failed and the hook still shows the value it wrote, which the store
\* does not have
C13_Witness ==
  /\ event.op = "rejected"
  /\ hooks[event.h].error = event.err
  /\ hooks[event.h].data = event.value
  /\ event.value # defaultValue
  /\ RemoteField(event.uid, KeyOf[event.h]) # event.value

\* C14: a step adds a write to those pending only if it is an update of a hook whose
\* identity is non-null with the store reachable, and the write is addressed to that
\* identity and to the hook's field; an update of a logged-out hook adds none
C14_WritesOnlyWhileLoggedIn ==
  [][/\ pending' # pending /\ Len(pending') >= Len(pending) =>
          /\ event'.op = "updateData"
          /\ reachable
          /\ pending' = Append(pending, pending'[Len(pending')])
          /\ LET w == pending'[Len(pending')]
             IN /\ w.uid # NoUid
                /\ w.uid = hooks'[w.h].user
                /\ w.h = event'.h
                /\ w.key = KeyOf[w.h]
     /\ event'.op = "updateData" /\ (hooks[event'.h].user = NoUid \/ ~reachable) =>
          pending' = pending]_vars

\* a hook that wrote to the document of A while logged in has logged out and made
\* an update, and no write is pending
C14_Witness ==
  /\ event.op = "updateData"
  /\ event.uid = NoUid
  /\ reachable
  /\ hooks[event.h].currentUidRef = NoUid
  /\ hooks[event.h].data = 2
  /\ "updatedAt" \in DOMAIN remote["A"].fields
  /\ pending = <<>>

\* the step is a logout of hook h: a render without a user after one with a user
Logout(h) ==
  /\ event'.op = "render"
  /\ event'.uid = NoUid
  /\ h \in mountable
  /\ hooks[h].user # NoUid

\* hook h holds no live subscription, is not loading and has no error
AtRest(h) ==
  /\ \A u \in Uids : listeners'[h][u] = 0
  /\ hooks'[h].unsubscribeRef = NoUid
  /\ hooks'[h].loading = FALSE
  /\ hooks'[h].error = NoError

Live(h) == {u \in Uids : listeners[h][u] > 0}

\* the steps in which the store calls a callback of a hook's listener
Deliveries == {"snapshot", "snapshotError", "collectionSnapshot", "collectionError"}

\* C16: a hook, of either kind, never holds two live subscriptions; in the step that
\* opens one for an identity every subscription it held is closed first, so after the
\* step it holds exactly the new one; an unmounted hook holds none; and a delivery
\* reaches a hook only for the identity it has at that moment
C16_CloseBeforeOpen ==
  /\ [](\A h \in Hooks :
          /\ \A u \in Uids : listeners[h][u] <= 1
          /\ Cardinality(Live(h)) <= 1
          /\ hooks[h].mounted # "yes" => Live(h) = {}
          /\ Live(h) \subseteq {hooks[h].user})
  /\ [][/\ \A h \in Hooks, u \in Uids :
            event'.op \in {"mount", "render"} /\ h \in mountable
            /\ u = event'.uid /\ listeners'[h][u] > 0 =>
              /\ listeners'[h] = [v \in Uids |-> IF v = u THEN 1 ELSE 0]
              /\ hooks'[h].unsubscribeRef = u
        /\ event'.op \in Deliveries =>
              /\ hooks[event'.h].mounted = "yes"
              /\ hooks[event'.h].user = event'.uid
              /\ \A h \in Hooks \ {event'.h} : hooks'[h] = hooks[h]]_vars

\* a hook that showed what was delivered for A has been re-rendered for B: it holds
\* the subscription for B alone and still waits for the first delivery
C16_Witness ==
  /\ event.op = "render"
  /\ event.uid = "B"
  /\ \E h \in mountable :
       /\ hooks[h].user = "B"
       /\ Live(h) = {"B"}
       /\ hooks[h].loading
       /\ hooks[h].data = IF h \in CollectionHooks THEN Items(collections["A"]) ELSE 2

C18_CounterConverges ==
  /\ [](event.op = "snapshot" /\ pending = <<>> =>
          hooks[event.h].data = RemoteField(event.uid, KeyOf[event.h]))
  /\ [][/\ event'.op = "updateData" /\ event'.updater =>
             /\ hooks'[event'.h].data = hooks[event'.h].data + 1
             /\ remote' = remote
             /\ event'.uid # NoUid /\ reachable =>
                  /\ SubSeq(pending', 1, Len(pending)) = pending
                  /\ Len(pending') = Len(pending) + 1
                  /\ pending'[Len(pending')].value = hooks[event'.h].data + 1
                  /\ pending'[Len(pending')].key = KeyOf[event'.h]
                  /\ pending'[Len(pending')].uid = event'.uid
        /\ event'.op = "applied" =>
             /\ pending # <<>>
             /\ pending' = Tail(pending)
             /\ Extract(remote'[Head(pending).uid].fields, Head(pending).key) =
                  Head(pending).value
             /\ hooks' = hooks]_vars

\* both increments have been issued and applied and the document delivered: the
\* store's field and the hook's value are 2
C18_Witness ==
  /\ event.op = "snapshot"
  /\ pending = <<>>
  /\ used.writes = 2
  /\ RemoteField("A", "data") = 2
  /\ hooks[1].data = 2

\* the steps in which a hook observes an error of the store
Observations ==
  {"mount", "render", "snapshotError", "rejected", "collectionError", "itemRejected"}

\* C19: a step in which a subscription callback, a write or the opening of a
\* listener observes an access-denied error leaves the process-wide slot set to the
\* permission error; once set, the slot keeps its value through every further
\* observation, by the same hook or another, until the UI clears it; it becomes set
\* only by such an observation
C19_PermissionErrorSetOnce ==
  [][/\ event'.op \in Observations /\ event'.err \in PermissionErrors =>
          firestorePermissionError' = PermissionMessage
     /\ firestorePermissionError # NoError /\ event'.op # "clear" =>
          firestorePermissionError' = firestorePermissionError
     /\ firestorePermissionError = NoError /\ firestorePermissionError' # NoError =>
          event'.op \in Observations /\ event'.err \in PermissionErrors]_vars

\* both hooks of the user have observed the denial, one after the other, and the
\* slot holds the permission error
C19_Witness ==
  /\ event.op \in {"snapshotError", "rejected"}
  /\ event.err \in PermissionErrors
  /\ \A h \in FieldHooks : hooks[h].error = event.err
  /\ firestorePermissionError = PermissionMessage

\* C20: the write update issues for a hook bound to field F carries F and updatedAt
\* and nothing else; the step that applies it leaves every other field of the
\* user's document, present or absent, as it was, sets F to the written value and
\* touches no other document
C20_MergeLeavesOtherFields ==
  [][/\ event'.op = "updateData" /\ pending' # pending =>
          LET w == pending'[Len(pending')]
          IN /\ w.key = KeyOf[event'.h]
             /\ DOMAIN Payload(w.key, w.value, w.updatedAt) = {w.key, "updatedAt"}
     /\ event'.op = "applied" =>
          LET w == Head(pending)
              before == remote[w.uid].fields
              after == remote'[w.uid].fields
          IN /\ remote'[w.uid].exists
             /\ DOMAIN after = DOMAIN before \cup {w.key, "updatedAt"}
             /\ \A k \in DOMAIN before \ {w.key, "updatedAt"} : after[k] = before[k]
             /\ after[w.key] = w.value
             /\ \A u \in Uids \ {w.uid} : remote'[u] = remote[u]]_vars

\* the two hooks have written their fields of the document of A, "data" first: the
\* write of "fx" has just been applied and "data" still has the value written
C20_Witness ==
  /\ event.op = "applied"
  /\ event.h = 2
  /\ "data" \in DOMAIN remote["A"].fields
  /\ remote["A"].fields["data"] = 2
  /\ remote["A"].fields["fx"] = 0

\* C21: a delivery whose value for the hook's field equals the value the hook holds
\* does not update the hook's state: no newly built value is stored, the value is
\* as it was
C21_EqualDeliveryKeepsState ==
  [][event'.op = "snapshot" /\ remote[event'.uid].exists
       /\ RemoteField(event'.uid, KeyOf[event'.h]) = hooks[event'.h].data =>
         /\ ~event'.fresh
         /\ hooks'[event'.h].data = hooks[event'.h].data]_vars

\* the three operations of the Collection Sync Hook
Operations == {"addItem", "updateItem", "deleteItem"}

\* C22: a call of addItem, updateItem or deleteItem made while the hook has no user
\* or the store is unreachable sends nothing to the store, ends with the error
\* that says the operation cannot be done, and leaves items, loading and error of
\* the hook as they were
C22_RefusedWhenUnavailable ==
  [][event'.op \in Operations /\ Unavailable(hooks[event'.h].user) =>
       /\ pending' = pending
       /\ collections' = collections
       /\ event'.err = CannotMessage[event'.op]
       /\ hooks' = hooks
       /\ firestorePermissionError' = firestorePermissionError]_vars

\* the hook has logged out while a call it made is still pending, and a further
\* call has just been refused
C22_Witness ==
  /\ event.op \in Operations
  /\ event.err = CannotMessage[event.op]
  /\ hooks[event.h].user = NoUid
  /\ Len(pending) = 1

\* C23: a call of addItem, updateItem or deleteItem, and the step in which the store
\* applies or rejects it, leave the items of every hook as they were; the items of
\* a hook change only in a delivery, in a delivery error or when its effect runs
C23_ItemsChangeOnlyByDelivery ==
  [][/\ event'.op \in Operations \cup {"itemApplied", "itemRejected"} =>
          \A h \in CollectionHooks : hooks'[h].data = hooks[h].data
     /\ \A h \in CollectionHooks :
          hooks'[h].data # hooks[h].data =>
            event'.op \in {"collectionSnapshot", "collectionError", "mount", "render"}]_vars

\* the store has applied a call of the hook to the sub-collection of its user, and
\* the hook still shows the items of the delivery before
C23_Witness ==
  /\ event.op = "itemApplied"
  /\ hooks[event.h].user = event.uid
  /\ hooks[event.h].data = Items(InitCollections[event.uid])
  /\ collections[event.uid] # InitCollections[event.uid]

\* C24: after a successful push to a collection hook its items are the documents of
\* the snapshot, one item per document and in the snapshot's order, each with the
\* fields of its document; nothing of what the hook held before is kept; error is
\* null and loading is false
C24_RebuiltFromSnapshot ==
  [][event'.op = "collectionSnapshot" =>
       LET docs == collections[event'.uid]
           items == hooks'[event'.h].data
       IN /\ Len(items) = Len(docs)
          /\ \A i \in 1..Len(docs) :
               /\ DOMAIN items[i] = DOMAIN docs[i].data \cup {"id"}
               /\ \A k \in DOMAIN docs[i].data : items[i][k] = docs[i].data[k]
          /\ hooks'[event'.h].error = NoError
          /\ hooks'[event'.h].loading = FALSE]_vars

\* a document of A has been deleted and the snapshot without it delivered: the hook,
\* which showed two items, shows the one that is left
C24_Witness ==
  /\ event.op = "collectionSnapshot"
  /\ event.uid = "A"
  /\ Len(collections["A"]) = 1
  /\ Len(hooks[event.h].data) = 1
  /\ hooks[event.h].data[1]["date"] = collections["A"][1].data["date"]

\* C25: the permission slot goes from empty to set only in a step that observes an
\* access-denied error, and every such step leaves it set; a step that observes
\* another error leaves it as it was; it goes from set to empty only in the clear
\* operation: deliveries, applied calls, logouts and logins leave it set
C25_SetByDenialClearedByClear ==
  [][/\ firestorePermissionError = NoError /\ firestorePermissionError' # NoError =>
          event'.op \in Observations /\ event'.err \in PermissionErrors
     /\ event'.op \in Observations /\ event'.err \in PermissionErrors =>
          firestorePermissionError' # NoError
     /\ event'.op \in Observations /\ event'.err \notin PermissionErrors =>
          firestorePermissionError' = firestorePermissionError
     /\ firestorePermissionError # NoError /\ firestorePermissionError' = NoError =>
          event'.op = "clear"
     /\ event'.op = "clear" => firestorePermissionError' = NoError]_vars

\* a denial was observed for A; the user has since logged in as B and B's documents
\* have been delivered: the slot is still set
C25_Witness ==
  /\ event.op = "collectionSnapshot"
  /\ event.uid = "B"
  /\ hooks[event.h].error = NoError
  /\ firestorePermissionError # NoError

\* C26: a mounted hook without a user, or with the store unreachable, is not
\* loading; a render that opens a subscription leaves the hook loading; every
\* delivery, of a document, of the absence of one or of an error, leaves it not
\* loading; loading changes in no other step, and becomes true only in a render
\* that opens a subscription
C26_LoadingUntilFirstDelivery ==
  /\ [](\A h \in mountable :
          hooks[h].mounted = "yes" /\ Unavailable(hooks[h].user) => ~hooks[h].loading)
  /\ [][/\ \A h \in mountable :
             event'.op \in {"mount", "render"} /\ Live(h)' # {} => hooks'[h].loading
        /\ event'.op \in Deliveries => ~hooks'[event'.h].loading
        /\ \A h \in mountable :
             hooks'[h].loading # hooks[h].loading =>
               \/ event'.op \in Deliveries /\ event'.h = h
               \/ event'.op \in {"mount", "render"}
                    /\ (hooks'[h].loading => Live(h)' # {})]_vars

\* the first delivery to a hook logged in as B says that B has no document: the
\* hook is no longer loading
C26_Witness ==
  /\ event.op = "snapshot"
  /\ event.uid = "B"
  /\ ~remote["B"].exists
  /\ Live(event.h) = {"B"}
  /\ ~hooks[event.h].loading

\* C27: a render that leaves a field hook with an open subscription was made with a
\* user, with the store reachable and with the permission slot empty
C27_NoSubscriptionWhileDenied ==
  [][\A h \in FieldHooks :
       event'.op \in {"mount", "render"} /\ h \in mountable /\ Live(h)' # {} =>
         /\ event'.uid # NoUid
         /\ reachable
         /\ firestorePermissionError = NoError]_vars

\* C28: a subscribe that returns an id invokes no callback during the call, and
\* every callback a handler invokes belongs to a subscription that was registered
\* when the push or error the handler delivers arrived: a new subscriber hears
\* nothing before the next push or error
C28_FirstCallbackAtNextPush ==
  /\ [](\A k \in DOMAIN log : log[k].id \in inflight.atPush)
  /\ [][last'.op = "subscribe" /\ last'.ret # NullId => last'.invoked = <<>>]_vars

\* C29: when the success handler has returned after a callback threw, every
\* subscription registered when the push arrived and not removed since has been
\* invoked with the pushed data, and none of them has been invoked twice
C29_ThrowLeavesOthersServed ==
  (Finished /\ inflight.kind = "data" /\ inflight.outcome = "caught") =>
    \A id \in inflight.atPush \ inflight.removed :
      /\ \E k \in Calls(id) : log[k].data = inflight.data /\ log[k].error = NoError
      /\ Cardinality(Calls(id)) <= 1

\* C30: when a snapshot has just been delivered to a collection hook, the id of
\* each item is the identifier of the document the item was built from
C30_ItemIdIsDocumentId ==
  event.op = "collectionSnapshot" =>
    \A i \in 1..Len(hooks[event.h].data) :
      hooks[event.h].data[i]["id"] = collections[event.uid][i].id
====
